---- MODULE Spec2Model ----
(***************************************************************************)
(* Model of the "Run Analysis" pipeline of app.py: id lookup (esearch),    *)
(* batch fetch (efetch), XML parsing with the per-article loop,            *)
(* score_article, ranking, the stats summary, the word cloud and the       *)
(* keyword-frequency table.                                                *)
(*                                                                         *)
(* Text is a sequence of one-character strings, so that lower(), strip(),  *)
(* the `in` substring test and the tokenizers are computed, not assumed.   *)
(***************************************************************************)
EXTENDS Integers, Sequences, FiniteSets, TLC

VARIABLES
    pc,            \* position of the run in the script
    journals,      \* app.py:24, parsed high-impact journal list
    institutions,  \* app.py:31, parsed institution list
    calls,         \* the HTTP requests issued so far, in order
    r,             \* esearch response (app.py:49)
    id_list,       \* app.py:50
    response,      \* efetch response (app.py:59)
    root,          \* outcome of ET.fromstring: "unparsed", "parsed", "failed"
    articles,      \* app.py:103
    idx,           \* 1-based position of the for loop of app.py:104
    parsed_ok,     \* app.py:61
    parsed_fail,   \* app.py:62
    records,       \* app.py:63
    df,            \* app.py:126, rows carry the DataFrame index label
    out,           \* what streamlit has displayed, in order
    stats,         \* the numbers of the st.success summary, once shown
    freq_df,       \* app.py:155, the rows of the keyword table
    exc            \* the exception that escaped the script, or "none"

vars == <<pc, journals, institutions, calls, r, id_list, response, root,
          articles, idx, parsed_ok, parsed_fail, records, df, out, stats,
          freq_df, exc>>

-----------------------------------------------------------------------------
(* Bounds of the model *)

MaxIds == 3
MaxTitleLen == 4

(* CountVectorizer(max_features=30) *)
MaxFeatures == 30

-----------------------------------------------------------------------------
(* Python values *)

\* None where a text is expected (findtext without a match, .text of an
\* element without text content)
None == <<"None">>

\* str(x) as an f-string formats it
Str(x) == IF x = None THEN <<"N", "o", "n", "e">> ELSE x

\* Python's `a or b` on text-or-None operands
OrElse(a, b) == IF a # None /\ a # <<>> THEN a ELSE b

UpperChars == {"A","B","C","D","E","F","G","H","I","J","K","L","M",
               "N","O","P","Q","R","S","T","U","V","W","X","Y","Z"}
LowerChars == {"a","b","c","d","e","f","g","h","i","j","k","l","m",
               "n","o","p","q","r","s","t","u","v","w","x","y","z"}
DigitChars == {"0","1","2","3","4","5","6","7","8","9"}

\* the characters the regex class \w matches
WordChars == UpperChars \cup LowerChars \cup DigitChars \cup {"_"}

LowerChar(c) ==
    CASE c = "A" -> "a" [] c = "B" -> "b" [] c = "C" -> "c" [] c = "D" -> "d"
      [] c = "E" -> "e" [] c = "F" -> "f" [] c = "G" -> "g" [] c = "H" -> "h"
      [] c = "I" -> "i" [] c = "J" -> "j" [] c = "K" -> "k" [] c = "L" -> "l"
      [] c = "M" -> "m" [] c = "N" -> "n" [] c = "O" -> "o" [] c = "P" -> "p"
      [] c = "Q" -> "q" [] c = "R" -> "r" [] c = "S" -> "s" [] c = "T" -> "t"
      [] c = "U" -> "u" [] c = "V" -> "v" [] c = "W" -> "w" [] c = "X" -> "x"
      [] c = "Y" -> "y" [] c = "Z" -> "z" [] OTHER -> c

\* str.lower()
Lower(s) == [i \in 1..Len(s) |-> LowerChar(s[i])]

\* str.strip()
RECURSIVE LStrip(_)
LStrip(s) == IF s # <<>> /\ Head(s) = " " THEN LStrip(Tail(s)) ELSE s
RECURSIVE RStrip(_)
RStrip(s) ==
    IF s # <<>> /\ s[Len(s)] = " " THEN RStrip(SubSeq(s, 1, Len(s) - 1)) ELSE s
Strip(s) == RStrip(LStrip(s))

\* `needle in hay` on str
Contains(needle, hay) ==
    \E i \in 0..(Len(hay) - Len(needle)) :
        SubSeq(hay, i + 1, i + Len(needle)) = needle

\* sep.join(parts), each part kept as one piece of the result
RECURSIVE Join(_, _)
Join(parts, sep) ==
    IF parts = <<>> THEN <<>>
    ELSE IF Len(parts) = 1 THEN <<parts[1]>>
    ELSE <<parts[1], sep>> \o Join(Tail(parts), sep)

\* sep.join(texts) on character sequences
RECURSIVE JoinText(_, _)
JoinText(texts, sep) ==
    IF texts = <<>> THEN <<>>
    ELSE IF Len(texts) = 1 THEN texts[1]
    ELSE texts[1] \o sep \o JoinText(Tail(texts), sep)

Range(s) == {s[i] : i \in DOMAIN s}

-----------------------------------------------------------------------------
(* Configuration *)

default_journals ==
    << <<"N", " ", "E", "n", "g", "l", " ", "J", " ", "M", "e", "d">>, <<"J", "A", "M", "A">>, <<"B", "M", "J">>, <<"L", "a", "n", "c", "e", "t">>, <<"N", "a", "t", "u", "r", "e">>, <<"S", "c", "i", "e", "n", "c", "e">>, <<"C", "e", "l", "l">> >>

default_institutions ==
    << <<"H", "a", "r", "v", "a", "r", "d">>, <<"O", "x", "f", "o", "r", "d">>, <<"M", "a", "y", "o", " ", "C", "l", "i", "n", "i", "c">>, <<"N", "I", "H">>, <<"S", "t", "a", "n", "f", "o", "r", "d">>,
       <<"U", "C", "S", "F">>, <<"Y", "a", "l", "e">>, <<"C", "a", "m", "b", "r", "i", "d", "g", "e">>, <<"K", "a", "r", "o", "l", "i", "n", "s", "k", "a">>, <<"J", "o", "h", "n", "s", " ", "H", "o", "p", "k", "i", "n", "s">> >>

hot_keywords ==
    << <<"g", "l", "p", "-", "1">>, <<"s", "e", "m", "a", "g", "l", "u", "t", "i", "d", "e">>, <<"t", "i", "r", "z", "e", "p", "a", "t", "i", "d", "e">>, <<"a", "i">>, <<"m", "a", "c", "h", "i", "n", "e", " ", "l", "e", "a", "r", "n", "i", "n", "g">>,
       <<"t", "e", "l", "e", "m", "e", "d", "i", "c", "i", "n", "e">> >>

valued_types ==
    << <<"r", "a", "n", "d", "o", "m", "i", "z", "e", "d", " ", "c", "o", "n", "t", "r", "o", "l", "l", "e", "d", " ", "t", "r", "i", "a", "l">>, <<"s", "y", "s", "t", "e", "m", "a", "t", "i", "c", " ", "r", "e", "v", "i", "e", "w">>, <<"m", "e", "t", "a", "-", "a", "n", "a", "l", "y", "s", "i", "s">>,
       <<"g", "u", "i", "d", "e", "l", "i", "n", "e">>, <<"p", "r", "a", "c", "t", "i", "c", "e", " ", "g", "u", "i", "d", "e", "l", "i", "n", "e">> >>

\* [x.strip().lower() for x in input.strip().split("\n") if x.strip()],
\* on the lines of the text area
RECURSIVE ParseLines(_)
ParseLines(lines) ==
    IF lines = <<>> THEN <<>>
    ELSE IF Strip(Head(lines)) # <<>>
         THEN <<Lower(Strip(Head(lines)))>> \o ParseLines(Tail(lines))
         ELSE ParseLines(Tail(lines))

-----------------------------------------------------------------------------
(* An article element of the efetch document.  A single-valued sub-element *)
(* is None when absent and its text otherwise; PublicationTypes and        *)
(* Affiliations hold, per sub-element found, its .text (None when the      *)
(* sub-element has no text content); Authors is the number of Author       *)
(* sub-elements; GrantList says whether a GrantList sub-element exists.    *)

Element(pmid, title, journal, year, medline, pubtypes, authors, affs, grant) ==
    [PMID |-> pmid, ArticleTitle |-> title, JournalTitle |-> journal,
     Year |-> year, MedlineDate |-> medline, PublicationTypes |-> pubtypes,
     Authors |-> authors, Affiliations |-> affs, GrantList |-> grant]

\* Element.findtext(path, default)
FindText(sub, default) == IF sub = None THEN default ELSE sub

-----------------------------------------------------------------------------
(* score_article *)

\* One rule's `score += points; reasons.append(reason)` under its condition
ApplyRuleNoReason(acc, fires, points, reason) ==
    IF fires THEN [score |-> acc.score + points, reasons |-> acc.reasons]
    ELSE acc

ApplyRule(acc, fires, points, reason) ==
    IF fires
    THEN [score |-> acc.score + points, reasons |-> Append(acc.reasons, reason)]
    ELSE acc

JournalRule(article) ==
    LET journal == Lower(FindText(article.JournalTitle, <<>>))
    IN  \E k \in DOMAIN journals : Contains(journals[k], journal)

\* [pt.text.lower() for pt in ...] raises AttributeError on a None text
PubTypesRaise(article) ==
    \E k \in DOMAIN article.PublicationTypes : article.PublicationTypes[k] = None

PubTypeRule(article) ==
    \E k \in DOMAIN article.PublicationTypes :
        Lower(article.PublicationTypes[k]) \in Range(valued_types)

AuthorsRule(article) == article.Authors >= 5

\* `if aff is not None` tests the element, never its text: aff.text.lower()
\* raises AttributeError on a None text all the same
AffiliationsRaise(article) ==
    \E k \in DOMAIN article.Affiliations : article.Affiliations[k] = None

InstitutionRule(article) ==
    \E k \in DOMAIN article.Affiliations : \E n \in DOMAIN institutions :
        Contains(institutions[n], Lower(article.Affiliations[k]))

KeywordRule(article) ==
    LET title == Lower(FindText(article.ArticleTitle, <<>>))
    IN  \E k \in DOMAIN hot_keywords : Contains(hot_keywords[k], title)

FundingRule(article) == article.GrantList

\* The result of score_article: raised, or (score, "; ".join(reasons))
score_article(article) ==
    LET s0 == [score |-> 0, reasons |-> <<>>]
        s1 == ApplyRule(s0, JournalRule(article), 2, "High-impact journal (+2)")
        s2 == ApplyRule(s1, PubTypeRule(article), 2, "Valued publication type (+2)")
        s3 == ApplyRule(s2, AuthorsRule(article), 1, "Multiple authors (+1)")
        s4 == ApplyRule(s3, InstitutionRule(article), 1, "Prestigious institution (+1)")
        s5 == ApplyRule(s4, KeywordRule(article), 2, "Hot keyword in title (+2)")
        s6 == ApplyRule(s5, FundingRule(article), 2, "Has research funding (+2)")
    IN  IF PubTypesRaise(article) \/ AffiliationsRaise(article)
        THEN [raised |-> TRUE, score |-> 0, why |-> <<>>]
        ELSE [raised |-> FALSE, score |-> s6.score, why |-> Join(s6.reasons, "; ")]

-----------------------------------------------------------------------------
(* The remote calls *)

NoResponse == [status_code |-> 0, body |-> "none"]

\* What the esearch endpoint can answer: a result with n ids, a result
\* without the idlist key, an error payload without esearchresult, a body
\* that is not JSON
SearchResponses ==
    {[status_code |-> 200, body |-> "idlist", n |-> n] : n \in 0..MaxIds}
    \cup {[status_code |-> 200, body |-> "no_idlist"],
          [status_code |-> 429, body |-> "no_esearchresult"],
          [status_code |-> 500, body |-> "not_json"]}

\* requests.get(search_url, ...) followed by
\* r.json()["esearchresult"].get("idlist", []); no status check, no timeout
Esearch ==
    /\ pc = "idle"
    /\ calls' = Append(calls, [url |-> "esearch"])
    /\ \/ /\ exc' = "ConnectionError"
          /\ pc' = "crashed"
          /\ UNCHANGED <<r, id_list>>
       \/ \E resp \in SearchResponses :
            /\ r' = resp
            /\ CASE resp.body = "idlist" ->
                        /\ id_list' = [i \in 1..resp.n |-> ToString(i)]
                        /\ pc' = "efetch"
                        /\ UNCHANGED exc
                 [] resp.body = "no_idlist" ->
                        /\ id_list' = <<>>
                        /\ pc' = "efetch"
                        /\ UNCHANGED exc
                 [] resp.body = "no_esearchresult" ->
                        /\ exc' = "KeyError"
                        /\ pc' = "crashed"
                        /\ UNCHANGED id_list
                 [] OTHER ->
                        /\ exc' = "JSONDecodeError"
                        /\ pc' = "crashed"
                        /\ UNCHANGED id_list
    /\ UNCHANGED <<journals, institutions, response, root, articles, idx,
                   parsed_ok, parsed_fail, records, df, out, stats, freq_df>>

\* The article elements the modelled efetch documents are built from
Catalogue ==
    { Element(<<"1">>, <<"A", "I", " ", "i", "n", " ", "C", "a", "r", "e">>, <<"J", "A", "M", "A">>, <<"2", "0", "2", "4">>, None,
              <<<<"J", "o", "u", "r", "n", "a", "l", " ", "A", "r", "t", "i", "c", "l", "e">>>>, 5, <<<<"H", "a", "r", "v", "a", "r", "d", " ", "M", "e", "d", "i", "c", "a", "l", " ", "S", "c", "h", "o", "o", "l">>>>, TRUE),
      Element(<<"2">>, <<"D", "i", "e", "t", " ", "T", "r", "i", "a", "l", " ", "2", "0", "2", "4">>, <<"G", "u", "t">>, None, <<"2", "0", "2", "4", " ", "J", "a", "n", "-", "F", "e", "b">>,
              <<>>, 1, <<>>, FALSE),
      Element(None, <<"V", "i", "t", "a", "m", "i", "n", " ", "D">>, <<"G", "u", "t">>, None, None,
              <<>>, 2, <<<<"L", "e", "e", "d", "s">>>>, FALSE),
      Element(<<"4">>, <<"S", "l", "e", "e", "p">>, <<"B", "M", "J", " ", "O", "p", "e", "n">>, <<"2", "0", "2", "5">>, None,
              <<<<"R", "e", "v", "i", "e", "w">>>>, 3, <<None, <<"N", "I", "H">>>>, FALSE),
      Element(<<"5">>, <<"O", "n", " ", "P", "a", "i", "n">>, None, <<"2", "0", "2", "5">>, None,
              <<None>>, 0, <<>>, TRUE),
      Element(<<"6">>, None, <<"T", "h", "e", " ", "L", "a", "n", "c", "e", "t">>, <<>>, None,
              <<<<"R", "a", "n", "d", "o", "m", "i", "z", "e", "d", " ", "C", "o", "n", "t", "r", "o", "l", "l", "e", "d", " ", "T", "r", "i", "a", "l">>>>, 2, <<>>, FALSE) }

\* efetch answers with at most one article element per requested id
Documents(ids) == UNION {[1..n -> Catalogue] : n \in 0..Len(ids)}

\* What the efetch endpoint can answer: a document of article elements, a
\* body that is no XML document, an error status with either kind of body
FetchResponses(ids) ==
    {[status_code |-> 200, wellformed |-> TRUE, elements |-> d] : d \in Documents(ids)}
    \cup {[status_code |-> 200, wellformed |-> FALSE, elements |-> <<>>],
          [status_code |-> 500, wellformed |-> FALSE, elements |-> <<>>],
          [status_code |-> 400, wellformed |-> TRUE, elements |-> <<>>]}

NoFetchResponse == [status_code |-> 0, wellformed |-> FALSE, elements |-> <<>>]

\* requests.get(efetch_url, params={..., "id": ",".join(id_list)}, timeout=30)
Efetch ==
    /\ pc = "efetch"
    /\ calls' = Append(calls, [url |-> "efetch", id |-> Join(id_list, ",")])
    /\ \/ /\ \E e \in {"Timeout", "ConnectionError"} : exc' = e
          /\ pc' = "crashed"
          /\ UNCHANGED response
       \/ /\ \E resp \in FetchResponses(id_list) : response' = resp
          /\ pc' = "parse"
          /\ UNCHANGED exc
    /\ UNCHANGED <<journals, institutions, r, id_list, root, articles, idx,
                   parsed_ok, parsed_fail, records, df, out, stats, freq_df>>

-----------------------------------------------------------------------------
(* Parsing *)

\* ET.fromstring(response.content) and root.findall(".//PubmedArticle");
\* a ParseError is caught by the outer except, which reports and goes on
ParseRoot ==
    /\ pc = "parse"
    /\ IF response.wellformed
       THEN /\ root' = "parsed"
            /\ articles' = response.elements
            /\ pc' = IF response.elements = <<>> THEN "rank" ELSE "loop"
            /\ UNCHANGED out
       ELSE /\ root' = "failed"
            /\ out' = Append(out, "error: Failed to parse XML from PubMed.")
            /\ pc' = "rank"
            /\ UNCHANGED articles
    /\ UNCHANGED <<journals, institutions, calls, r, id_list, response, idx,
                   parsed_ok, parsed_fail, records, df, stats, freq_df, exc>>

-----------------------------------------------------------------------------
(* The body of the per-article loop *)

LinkPrefix == <<"https://pubmed.ncbi.nlm.nih.gov/">>

\* The dict appended to records for one article
Row(article) ==
    [Title   |-> FindText(article.ArticleTitle, <<>>),
     Link    |-> LinkPrefix \o Str(article.PMID) \o <<"/">>,
     Journal |-> FindText(article.JournalTitle, <<>>),
     Date    |-> OrElse(article.Year, OrElse(article.MedlineDate, <<"N", "/", "A">>)),
     Score   |-> score_article(article).score,
     Why     |-> score_article(article).why]

\* records after one iteration: the append follows score_article, so an
\* iteration that raises has appended nothing
RecordsAfterEager(recs, article) == Append(recs, Row(article))

RecordsAfter(recs, article) ==
    IF score_article(article).raised THEN recs ELSE Append(recs, Row(article))

ParseArticle ==
    /\ pc = "loop"
    /\ idx <= Len(articles)
    /\ records' = RecordsAfter(records, articles[idx])
    /\ IF score_article(articles[idx]).raised
       THEN parsed_fail' = parsed_fail + 1 /\ UNCHANGED parsed_ok
       ELSE parsed_ok' = parsed_ok + 1 /\ UNCHANGED parsed_fail
    /\ idx' = idx + 1
    /\ pc' = IF idx < Len(articles) THEN "loop" ELSE "rank"
    /\ UNCHANGED <<journals, institutions, calls, r, id_list, response, root,
                   articles, df, out, stats, freq_df, exc>>

-----------------------------------------------------------------------------
(* Ranking and the summary *)

Descending(rows) ==
    \A i \in 1..(Len(rows) - 1) : rows[i].row.Score >= rows[i + 1].row.Score

Ascending(rows) ==
    \A i \in 1..(Len(rows) - 1) : rows[i].row.Score <= rows[i + 1].row.Score

\* The frame of records in the order p, each row under its index label
Reordered(recs, p) ==
    [i \in 1..Len(recs) |-> [index |-> p[i] - 1, row |-> recs[p[i]]]]

SortValuesAscending(recs) ==
    {d \in {Reordered(recs, p) : p \in Permutations(1..Len(recs))} : Ascending(d)}

\* pd.DataFrame(records).sort_values("Score", ascending=False): kind is left
\* at its default, "quicksort", which gives no order among equal keys, so
\* every descending arrangement is a possible result.  (On the short arrays
\* where numpy's quicksort is an insertion sort the arrangement is the stable
\* one; the run fetches up to max_results = 10..500 articles, and the few
\* rows modelled here stand for such frames.)
SortValues(recs) ==
    {d \in {Reordered(recs, p) : p \in Permutations(1..Len(recs))} : Descending(d)}

\* A frame built from an empty list has no "Score" column: sort_values
\* raises KeyError, outside every try block
Rank ==
    /\ pc = "rank"
    /\ IF records = <<>>
       THEN /\ exc' = "KeyError"
            /\ pc' = "crashed"
            /\ UNCHANGED df
       ELSE /\ df' \in SortValues(records)
            /\ pc' = "summary"
            /\ UNCHANGED exc
    /\ UNCHANGED <<journals, institutions, calls, r, id_list, response, root,
                   articles, idx, parsed_ok, parsed_fail, records, out, stats,
                   freq_df>>

\* st.success(...) and the table, or the warning when the frame is empty
Summary ==
    /\ pc = "summary"
    /\ stats' = <<[ids |-> Len(id_list), ok |-> parsed_ok, fail |-> parsed_fail]>>
    /\ out' = out \o <<"success: Found PMIDs. Successfully parsed. Failed to parse.",
                       IF df # <<>> THEN "dataframe: Ranked Articles"
                       ELSE "warning: No valid articles found to display.">>
    /\ pc' = "wordcloud"
    /\ UNCHANGED <<journals, institutions, calls, r, id_list, response, root,
                   articles, idx, parsed_ok, parsed_fail, records, df, freq_df,
                   exc>>

-----------------------------------------------------------------------------
(* Word cloud and keyword frequency *)

\* Entries of sklearn's ENGLISH_STOP_WORDS (those that the modelled titles
\* can produce, and some more)
StopWords ==
    { <<"a">>, <<"a", "n">>, <<"a", "n", "d">>, <<"a", "r", "e">>, <<"a", "s">>, <<"a", "t">>, <<"b", "e">>, <<"b", "y">>, <<"f", "o", "r">>, <<"f", "r", "o", "m">>, <<"h", "a", "s">>,
      <<"h", "e">>, <<"i">>, <<"i", "n">>, <<"i", "s">>, <<"i", "t">>, <<"i", "t", "s">>, <<"n", "o">>, <<"n", "o", "t">>, <<"o", "f">>, <<"o", "n">>, <<"o", "r">>,
      <<"t", "h", "a", "t">>, <<"t", "h", "e">>, <<"t", "o">>, <<"t", "o", "o">>, <<"w", "a", "s">>, <<"w", "e">>, <<"w", "e", "r", "e">>, <<"w", "i", "l", "l">>, <<"w", "i", "t", "h">> }

\* The maximal runs of \w characters of s, in order
WordRuns(s) ==
    LET starts == {i \in DOMAIN s :
                     s[i] \in WordChars /\ (i = 1 \/ s[i - 1] \notin WordChars)}
        EndOf(i) == CHOOSE j \in i..Len(s) :
                      /\ \A k \in i..j : s[k] \in WordChars
                      /\ (j = Len(s) \/ s[j + 1] \notin WordChars)
        Nth(n) == CHOOSE i \in starts : Cardinality({j \in starts : j <= i}) = n
    IN  [n \in 1..Cardinality(starts) |-> SubSeq(s, Nth(n), EndOf(Nth(n)))]

IsDigits(w) == \A i \in DOMAIN w : w[i] \in DigitChars

Titles(frame) == [i \in 1..Len(frame) |-> frame[i].row.Title]

\* WordCloud(stopwords=...).generate(text): words are the \w runs that are
\* not numbers and not stopwords; with none left it raises ValueError
CloudWords(text) ==
    SelectSeq(WordRuns(text),
              LAMBDA w : ~IsDigits(w) /\ Lower(w) \notin StopWords)

WordCloud ==
    /\ pc = "wordcloud"
    /\ IF CloudWords(JoinText(Titles(df), <<" ">>)) # <<>>
       THEN /\ out' = Append(out, "pyplot: word cloud")
            /\ pc' = "frequency"
            /\ UNCHANGED exc
       ELSE /\ exc' = "ValueError"
            /\ pc' = "crashed"
            /\ UNCHANGED out
    /\ UNCHANGED <<journals, institutions, calls, r, id_list, response, root,
                   articles, idx, parsed_ok, parsed_fail, records, df, stats,
                   freq_df>>

\* CountVectorizer's preprocessing (lowercase=True)
PreprocessKeepCase(doc) == doc

Preprocess(doc) == Lower(doc)

\* CountVectorizer's default token_pattern (?u)\b\w\w+\b: the \w runs of
\* two or more characters
Tokenize(doc) == SelectSeq(WordRuns(doc), LAMBDA w : Len(w) >= 2)

\* stop_words='english'
RemoveStopWords(tokens) == SelectSeq(tokens, LAMBDA w : w \notin StopWords)

\* The analyzer applied to one document
Analyze(doc) == RemoveStopWords(Tokenize(Preprocess(doc)))

RECURSIVE AnalyzeAll(_)
AnalyzeAll(docs) ==
    IF docs = <<>> THEN <<>> ELSE Analyze(Head(docs)) \o AnalyzeAll(Tail(docs))

\* X.toarray().sum(axis=0) for one term
TermCount(term, tokens) == Cardinality({i \in DOMAIN tokens : tokens[i] = term})

\* max_features: the terms of highest total count are kept; which of the
\* equally frequent terms at the cut survive is left to argsort
RECURSIVE LimitFeatures(_, _)
LimitFeatures(vocabulary, tokens) ==
    IF Cardinality(vocabulary) <= MaxFeatures THEN {vocabulary}
    ELSE LET least == CHOOSE t \in vocabulary :
                        \A u \in vocabulary :
                            TermCount(t, tokens) <= TermCount(u, tokens)
             rarest == {t \in vocabulary :
                          TermCount(t, tokens) = TermCount(least, tokens)}
         IN  UNION {LimitFeatures(vocabulary \ {t}, tokens) : t \in rarest}

\* fit_transform raises ValueError on an empty vocabulary.  freq_df is kept
\* as the set of its rows: their order after sort_values("Frequency") is,
\* among equal counts, as open as in the ranking
Frequency ==
    /\ pc = "frequency"
    /\ LET tokens == AnalyzeAll(Titles(df))
       IN  IF tokens = <<>>
           THEN /\ exc' = "ValueError"
                /\ pc' = "crashed"
                /\ UNCHANGED <<freq_df, out>>
           ELSE /\ \E kept \in LimitFeatures(Range(tokens), tokens) :
                     freq_df' = {[Keyword |-> t, Frequency |-> TermCount(t, tokens)]
                                   : t \in kept}
                /\ out' = Append(out, "dataframe: Keyword Frequency")
                /\ pc' = "done"
                /\ UNCHANGED exc
    /\ UNCHANGED <<journals, institutions, calls, r, id_list, response, root,
                   articles, idx, parsed_ok, parsed_fail, records, df, stats>>

-----------------------------------------------------------------------------
(* The run *)

Init ==
    /\ pc = "idle"
    /\ journals = ParseLines(default_journals)
    /\ institutions = ParseLines(default_institutions)
    /\ calls = <<>>
    /\ r = NoResponse
    /\ id_list = <<>>
    /\ response = NoFetchResponse
    /\ root = "unparsed"
    /\ articles = <<>>
    /\ idx = 1
    /\ parsed_ok = 0
    /\ parsed_fail = 0
    /\ records = <<>>
    /\ df = <<>>
    /\ out = <<>>
    /\ stats = <<>>
    /\ freq_df = {}
    /\ exc = "none"

Next ==
    \/ Esearch
    \/ Efetch
    \/ ParseRoot
    \/ ParseArticle
    \/ Rank
    \/ Summary
    \/ WordCloud
    \/ Frequency

Spec == Init /\ [][Next]_vars

-----------------------------------------------------------------------------
(* score_article on its own: one loop iteration over a one-element         *)
(* document, for a range of article elements and of text-area contents     *)

JournalInputs ==
    { <<>>, default_journals, << <<" ", "J", "A", "M", "A", " ">>, <<" ", " ", " ">>, <<"N", "a", "t", "u", "r", "e">> >> }

InstitutionInputs ==
    { <<>>, default_institutions, << <<" ", " ", "N", "I", "H">> >> }

ScoreElements ==
    { Element(<<"1">>, title, journal, <<"2", "0", "2", "4">>, None, pubtypes, authors, affs, grant) :
        title \in {None, <<>>, <<"P", "a", "i", "n">>, <<"D", "i", "e", "t">>, <<"S", "e", "m", "a", "g", "l", "u", "t", "i", "d", "e", " ", "a", "n", "d", " ", "A", "I", " ", "i", "n", " ", "D", "i", "a", "b", "e", "t", "e", "s", " ", "C", "a", "r", "e">>},
        journal \in {None, <<>>, <<"J", "A", "M", "A", " ", "O", "n", "c", "o", "l", "o", "g", "y">>, <<"G", "u", "t">>},
        pubtypes \in {<<>>, <<<<"J", "o", "u", "r", "n", "a", "l", " ", "A", "r", "t", "i", "c", "l", "e">>>>, <<None>>,
                      <<<<"J", "o", "u", "r", "n", "a", "l", " ", "A", "r", "t", "i", "c", "l", "e">>, <<"M", "e", "t", "a", "-", "A", "n", "a", "l", "y", "s", "i", "s">>>>},
        authors \in {4, 5},
        affs \in {<<>>, <<<<"n", "i", "h", ",", " ", "B", "e", "t", "h", "e", "s", "d", "a">>>>, <<<<"L", "e", "e", "d", "s">>, <<"H", "a", "r", "v", "a", "r", "d">>>>, <<None, <<"N", "I", "H">>>>},
        grant \in BOOLEAN }

InitScore ==
    /\ pc = "loop"
    /\ journals \in {ParseLines(x) : x \in JournalInputs}
    /\ institutions \in {ParseLines(x) : x \in InstitutionInputs}
    /\ calls = <<[url |-> "esearch"], [url |-> "efetch", id |-> <<"1">>]>>
    /\ r = [status_code |-> 200, body |-> "idlist", n |-> 1]
    /\ id_list = <<"1">>
    /\ \E el \in ScoreElements :
         /\ response = [status_code |-> 200, wellformed |-> TRUE, elements |-> <<el>>]
         /\ articles = <<el>>
    /\ root = "parsed"
    /\ idx = 1
    /\ parsed_ok = 0
    /\ parsed_fail = 0
    /\ records = <<>>
    /\ df = <<>>
    /\ out = <<>>
    /\ stats = <<>>
    /\ freq_df = {}
    /\ exc = "none"

NextScore == ParseArticle

SpecScore == InitScore /\ [][NextScore]_vars

-----------------------------------------------------------------------------
(* The keyword-frequency step on its own: the run stands before it, with   *)
(* the titles of the ranked frame drawn from short texts and one long one  *)

TitleChars == {"a", "t", "o", "T", "1", " ", "-"}

ShortTitles == UNION {[1..n -> TitleChars] : n \in 0..MaxTitleLen}

LongTitle ==
    <<"T", "o", " ", "a", " ", "a", "a", " ", "a", "o", " ", "a", "1", " ", "t", "a", " ", "t", "t", " ", "t", "1", " ", "o", "a", " ", "o", "t", " ", "o", "o", " ", "o", "1", " ", "1", "a", " ", "1", "t", " ", "1", "o", " ", "1", "1", " ", "a", "a", "a", " ", "a", "a", "t", " ", "a", "a", "o", " ", "a", "a", "1", " ", "a", "t", "a", " ", "a", "t", "t", " ", "a", "t", "o", " ", "a", "t", "1", " ", "a", "o", "a", " ", "a", "o", "t", " ", "a", "o", "o", " ", "a", "o", "1", " ", "a", "1", "a", " ", "a", "1", "t", " ", "a", "1", "o", " ", "a", "1", "1", " ", "t", "a", "a", " ", "a", "a">>

SecondTitle == <<"t", "a", "t", " ", "T", "o", " ", "1", "1">>

TitledElement(k, title) ==
    Element(<<ToString(k)>>, title, None, None, None, <<>>, 0, <<>>, FALSE)

Corpora ==
    {<<TitledElement(1, t)>> : t \in ShortTitles \cup {LongTitle}}
    \cup {<<TitledElement(1, t), TitledElement(2, SecondTitle)>> : t \in ShortTitles}

InitFreq ==
    /\ pc = "frequency"
    /\ journals = ParseLines(default_journals)
    /\ institutions = ParseLines(default_institutions)
    /\ \E doc \in Corpora :
         /\ calls = <<[url |-> "esearch"],
                      [url |-> "efetch",
                       id |-> Join([i \in 1..Len(doc) |-> ToString(i)], ",")]>>
         /\ r = [status_code |-> 200, body |-> "idlist", n |-> Len(doc)]
         /\ id_list = [i \in 1..Len(doc) |-> ToString(i)]
         /\ response = [status_code |-> 200, wellformed |-> TRUE, elements |-> doc]
         /\ articles = doc
         /\ idx = Len(doc) + 1
         /\ parsed_ok = Len(doc)
         /\ records = [i \in 1..Len(doc) |-> Row(doc[i])]
         /\ df \in SortValues([i \in 1..Len(doc) |-> Row(doc[i])])
         /\ stats = <<[ids |-> Len(doc), ok |-> Len(doc), fail |-> 0]>>
    /\ CloudWords(JoinText(Titles(df), <<" ">>)) # <<>>
    /\ root = "parsed"
    /\ parsed_fail = 0
    /\ out = <<"success: Found PMIDs. Successfully parsed. Failed to parse.",
               "dataframe: Ranked Articles", "pyplot: word cloud">>
    /\ freq_df = {}
    /\ exc = "none"

NextFreq == Frequency

SpecFreq == InitFreq /\ [][NextFreq]_vars

-----------------------------------------------------------------------------
(* Properties *)

LookupReturnedEmpty == r.body \in {"idlist", "no_idlist"} /\ id_list = <<>>

Issued(url) == {i \in DOMAIN calls : calls[i].url = url}

HasId(el) == el.PMID # None

Raises(el) == score_article(el).raised

\* the for loop over articles has run to its end
LoopDone == root = "parsed" /\ idx > Len(articles)

ParseErrorShown == "error: Failed to parse XML from PubMed." \in Range(out)

\* C1: when the id lookup returns an empty id list, the batch fetch is never
\* issued and nothing downstream runs: no parsing, no records, no ranking, no
\* aggregation, and the run ends without an exception.
C1_EmptyLookupSkipsFetch ==
    LookupReturnedEmpty =>
        /\ Issued("efetch") = {}
        /\ root = "unparsed"
        /\ records = <<>>
        /\ df = <<>>
        /\ freq_df = {}
        /\ exc = "none"

\* C2: after the loop over a document whose elements either carry an
\* identifier and parse cleanly (N of them) or lack an identifier (M of them),
\* there are exactly N records, parsed_ok = N and parsed_fail = M.
C2_RecordsAreTheElementsWithId ==
    (LoopDone /\ \A k \in DOMAIN articles : HasId(articles[k]) => ~Raises(articles[k]))
    => LET N == Cardinality({k \in DOMAIN articles : HasId(articles[k])})
           M == Cardinality({k \in DOMAIN articles : ~HasId(articles[k])})
       IN  Len(records) = N /\ parsed_ok = N /\ parsed_fail = M

Rules ==
    << [reason |-> "High-impact journal (+2)", points |-> 2],
       [reason |-> "Valued publication type (+2)", points |-> 2],
       [reason |-> "Multiple authors (+1)", points |-> 1],
       [reason |-> "Prestigious institution (+1)", points |-> 1],
       [reason |-> "Hot keyword in title (+2)", points |-> 2],
       [reason |-> "Has research funding (+2)", points |-> 2] >>

RECURSIVE PointsOfReasons(_, _)
PointsOfReasons(why, n) ==
    IF n = 0 THEN 0
    ELSE PointsOfReasons(why, n - 1)
         + (IF Rules[n].reason \in Range(why) THEN Rules[n].points ELSE 0)

Triggered(el) ==
    << JournalRule(el), PubTypeRule(el), AuthorsRule(el), InstitutionRule(el),
       KeywordRule(el), FundingRule(el) >>

\* C3: whenever score_article returns, the score is the sum of the points of
\* exactly the rules whose reason text is in the reasons string, and a rule's
\* reason is in the string exactly when the rule's condition held.
C3_ScoreMatchesReasons ==
    /\ \A k \in DOMAIN records :
         records[k].Score = PointsOfReasons(records[k].Why, Len(Rules))
    /\ (Len(articles) = 1 /\ Len(records) = 1) =>
         \A n \in DOMAIN Rules :
            Triggered(articles[1])[n] <=> Rules[n].reason \in Range(records[1].Why)

\* the spec's end-to-end example: journal, authors, hot keyword and funding
\* fire, publication type and institution do not
C3_Witness ==
    /\ Len(articles) = 1 /\ Len(records) = 1
    /\ articles[1].ArticleTitle = <<"S", "e", "m", "a", "g", "l", "u", "t", "i", "d", "e", " ", "a", "n", "d", " ", "A", "I", " ", "i", "n", " ", "D", "i", "a", "b", "e", "t", "e", "s", " ", "C", "a", "r", "e">>
    /\ articles[1].Authors = 5
    /\ records[1].Score = 7
    /\ records[1].Why = << "High-impact journal (+2)", "; ", "Multiple authors (+1)", "; ",
                           "Hot keyword in title (+2)", "; ", "Has research funding (+2)" >>

\* C4: a response that is no XML document ends the run as a reported failure:
\* nothing is ranked, no summary and no frequency table is produced, and no
\* exception escapes.
C4_MalformedDocumentStopsTheRun ==
    root = "failed" =>
        /\ ParseErrorShown
        /\ df = <<>>
        /\ stats = <<>>
        /\ freq_df = {}
        /\ exc = "none"

LookupFailed == (Issued("esearch") # {} /\ exc = "ConnectionError" /\ Issued("efetch") = {})
                \/ r.status_code \notin {0, 200}

FetchFailed == (Issued("efetch") # {} /\ exc \in {"Timeout", "ConnectionError"})
               \/ response.status_code \notin {0, 200}

\* C5: a remote call that fails (network error, timeout, non-success status)
\* ends the run there: neither call is issued twice, a failed lookup is not
\* followed by the fetch, nothing is parsed, ranked or summarised, and the
\* outcome is not the malformed-document report.
C5_FailedCallEndsTheRun ==
    (LookupFailed \/ FetchFailed) =>
        /\ Cardinality(Issued("esearch")) <= 1
        /\ Cardinality(Issued("efetch")) <= 1
        /\ (LookupFailed => Issued("efetch") = {})
        /\ root = "unparsed"
        /\ ~ParseErrorShown
        /\ records = <<>>
        /\ df = <<>>
        /\ stats = <<>>

\* the element with its textless publication types and affiliations left out
SkipTextless(el) ==
    [el EXCEPT !.PublicationTypes = SelectSeq(@, LAMBDA t : t # None),
               !.Affiliations = SelectSeq(@, LAMBDA t : t # None)]

\* C6: while every element processed so far has an identifier, none has
\* failed: each yielded a record, scored from its entries that have text.
C6_TextlessEntriesAreSkipped ==
    (root = "parsed" /\ \A k \in 1..(idx - 1) : HasId(articles[k]))
    => /\ parsed_fail = 0
       /\ parsed_ok = idx - 1
       /\ Len(records) = idx - 1
       /\ \A k \in 1..(idx - 1) :
            records[k].Score = score_article(SkipTextless(articles[k])).score

IsPermutationOf(frame, recs) ==
    /\ Len(frame) = Len(recs)
    /\ {frame[i].index : i \in DOMAIN frame} = 0..(Len(recs) - 1)
    /\ \A i \in DOMAIN frame : frame[i].row = recs[frame[i].index + 1]

Ranked == df # <<>> \/ stats # <<>>

\* C7 (as amended): the ranked table is a permutation of the parsed records
\* with non-increasing scores; the order among equal scores is not fixed.
C7_RankedIsDescendingPermutation ==
    Ranked => IsPermutationOf(df, records) /\ Descending(df)

\* a table of three whose top row was parsed last and which holds a tie
C7_Witness ==
    /\ Len(df) = 3
    /\ df[1].index = 2
    /\ df[1].row.Score > df[2].row.Score
    /\ df[2].row.Score = df[3].row.Score

\* C7 (as stated): moreover, records of equal score keep the order in which
\* they were parsed.
C7_RankingIsStable ==
    Ranked =>
        /\ IsPermutationOf(df, records)
        /\ Descending(df)
        /\ \A i, j \in DOMAIN df :
             (i < j /\ df[i].row.Score = df[j].row.Score) => df[i].index < df[j].index

Terms == {row.Keyword : row \in freq_df}

C9_EmptyRankingShowsTheWarning ==
    (LoopDone /\ records = <<>> /\ pc \notin {"loop", "rank", "summary"})
    => /\ exc = "none"
       /\ stats = <<[ids |-> Len(id_list), ok |-> 0, fail |-> parsed_fail]>>
       /\ "warning: No valid articles found to display." \in Range(out)

\* C10: between iterations parsed_ok is the number of records and
\* parsed_ok + parsed_fail the number of elements processed; an iteration
\* moves exactly one counter, by one; one that raises leaves records as they
\* were; and the loop goes on while elements remain.
C10_LoopCounters ==
    /\ [](parsed_ok = Len(records) /\ parsed_ok + parsed_fail = idx - 1)
    /\ [][idx' # idx =>
            /\ idx' = idx + 1
            /\ \/ /\ ~Raises(articles[idx])
                  /\ parsed_ok' = parsed_ok + 1 /\ parsed_fail' = parsed_fail
                  /\ Len(records') = Len(records) + 1
                  /\ SubSeq(records', 1, Len(records)) = records
               \/ /\ Raises(articles[idx])
                  /\ parsed_fail' = parsed_fail + 1 /\ parsed_ok' = parsed_ok
                  /\ records' = records
            /\ (idx < Len(articles) => pc' = "loop")]_vars

\* an element that raised was followed by one that yielded a record
C10_Witness ==
    /\ parsed_ok >= 1 /\ parsed_fail >= 1
    /\ \E i, j \in 1..(idx - 1) :
         i < j /\ Raises(articles[i]) /\ ~Raises(articles[j])

====
